---- MODULE Spec2Model ----
(***************************************************************************)
(* A model of the dql node-query engine: NodeSets (a lazy iter.Seq of      *)
(* named nodes plus an Err slot) and the operations XGo_Select, XGo_Elem,   *)
(* XGo_Child, XGo_Any, XGo_Attr, XGo_Enum, XGo_0 and XGo_1 of the           *)
(* reflects, maps, xml and html packages.                                   *)
(*                                                                         *)
(* A Go string is a sequence of byte values (<<97>> is "a", <<65, 66>> is   *)
(* "AB", << >> is ""), so that capitalize/uncapitalize are computed the     *)
(* way the code computes them.                                              *)
(*                                                                         *)
(* An iter.Seq is a closure.  It is modelled by a record that names the     *)
(* function literal (field f) and holds the variables it captures; calling  *)
(* it is the operator Call.  A yield callback is likewise a record (field   *)
(* k); calling it is the operator Yield.  The record st threaded through    *)
(* every call holds the variables the closures write (val, err, first),     *)
(* the boolean the last call returned (ret), whether a panic is unwinding   *)
(* (fault), and counters that observe the run (calls, pulls, steps, out,    *)
(* late, after).                                                            *)
(***************************************************************************)
EXTENDS Integers, Sequences, FiniteSets

VARIABLES
    pkg,    \* the adapter package in use
    root,   \* the document the NodeSet was created from
    input,  \* what the loader met: the errors of opening and of parsing
    ns,     \* the current NodeSet: [Data, Err]
    prev,   \* the NodeSet the last transformation was applied to
    op,     \* the last operation applied: [f, name]
    res,    \* what the last terminal operation (or enumeration) returned
    fetch   \* package fetcher: the registry convs and the last call of Do or From

vars == <<pkg, root, input, ns, prev, op, res, fetch>>

\* Bounds of the model.
MaxOps == 2        \* transformations stacked on the initial NodeSet
MaxStop == 2       \* a consumer stops after 1..MaxStop items, or never (0)
MaxRegs == 2       \* calls of fetcher.Register
MaxDepth == 8      \* nested calls of rangeAnyNodes the stack has room for

(***************************************************************************)
(* Names.                                                                  *)
(***************************************************************************)
nEmpty == << >>
n_a == <<97>>
n_A == <<65>>
n_b == <<98>>
n_aB == <<97, 66>>
n_AB == <<65, 66>>
n_IM == <<73, 77>>
n_iM == <<105, 77>>
n_p == <<112>>
n_P == <<80>>
n_N == <<78>>
n_x == <<120>>
n_1 == <<49>>
n_2 == <<50>>
n_html == <<104, 116, 109, 108>>
n_role == <<114, 111, 108, 101>>
n_name == <<110, 97, 109, 101>>
n_tags == <<116, 97, 103, 115>>
n_textNode == <<116, 101, 120, 116, 78, 111, 100, 101>>
n__text == <<95, 116, 101, 120, 116>>
n__comment == <<95, 99, 111, 109, 109, 101, 110, 116>>
n__doctype == <<95, 100, 111, 99, 116, 121, 112, 101>>

\* Errors.
NoErr == "nil"
ErrNotFound == "ErrNotFound"
ErrMultiEntities == "ErrMultiEntities"
ErrParse == "parse error"
ErrOpen == "open error"
ErrSyntax == "invalid syntax"
ErrUnknownPageType == "unknown page type"

(***************************************************************************)
(* reflect.Value.  The values of the introspection adapter live in a heap  *)
(* of cells; a reflect.Value is a cell id (0: the zero Value, Kind          *)
(* Invalid) and the read-only flag reflect sets on a value obtained through *)
(* an unexported field.                                                     *)
(***************************************************************************)
Heap == <<
    [kind |-> "Int"],                                                   \*  1: int 7
    [kind |-> "String"],                                                \*  2: string "x"
    [kind |-> "Struct", fields |-> << >>],                              \*  3: T0{}
    [kind |-> "Struct", fields |-> << [Name |-> n_A, v |-> 1],
                                      [Name |-> n_AB, v |-> 3] >>],     \*  4: T1{A int; AB T0}
    [kind |-> "Pointer", elem |-> 4],                                   \*  5: *T1
    [kind |-> "Pointer", elem |-> 5],                                   \*  6: **T1
    [kind |-> "Pointer", elem |-> 0],                                   \*  7: (*T1)(nil)
    [kind |-> "Interface", elem |-> 3],                                 \*  8: any(T0{})
    [kind |-> "Interface", elem |-> 1],                                 \*  9: any(7)
    [kind |-> "Interface", elem |-> 0],                                 \* 10: any(nil)
    [kind |-> "Map", keyKind |-> "String",
     entries |-> << [key |-> n_a, v |-> 8], [key |-> n_A, v |-> 9] >>], \* 11: map[string]any
    [kind |-> "Interface", elem |-> 11],                                \* 12: any(map 11)
    [kind |-> "Map", keyKind |-> "Int",
     entries |-> << [key |-> <<1>>, v |-> 3] >>],                       \* 13: map[int]T0
    [kind |-> "Struct", fields |-> << [Name |-> n_AB, v |-> 5],
                                      [Name |-> n_a, v |-> 4],
                                      [Name |-> n_A, v |-> 1],
                                      [Name |-> n_P, v |-> 6],
                                      [Name |-> n_N, v |-> 7],
                                      [Name |-> n_IM, v |-> 13] >>],    \* 14: Doc
    [kind |-> "Pointer", elem |-> 14],                                  \* 15: *Doc
    [kind |-> "Interface", elem |-> 4],                                 \* 16: any(T1)
    [kind |-> "Interface", elem |-> 5],                                 \* 17: any(*T1)
    [kind |-> "Map", keyKind |-> "String",
     entries |-> << [key |-> n_a, v |-> 12], [key |-> n_A, v |-> 16],
                    [key |-> nEmpty, v |-> 8], [key |-> n_aB, v |-> 10],
                    [key |-> n_p, v |-> 17] >>],                        \* 18: map[string]any
    [kind |-> "Slice"],                                                 \* 19: []int
    [kind |-> "Struct", fields |-> << [Name |-> n_P, v |-> 21],
                                      [Name |-> n_A, v |-> 1] >>],      \* 20: T2{P *T2; A int}
    [kind |-> "Pointer", elem |-> 20]                                   \* 21: t = &T2{}; t.P = t
>>

Invalid == [id |-> 0, ro |-> FALSE]
ValueOf(id) == [id |-> id, ro |-> FALSE]

Kind(v) == IF v.id = 0 THEN "Invalid" ELSE Heap[v.id].kind
IsValid(v) == v.id # 0

\* v.Elem() of a Pointer or Interface: the zero Value when it is nil.
ValueElem(v) ==
    IF Heap[v.id].elem = 0 THEN Invalid
    ELSE [id |-> Heap[v.id].elem, ro |-> v.ro]

\* A field is exported when its name starts with an upper-case letter.
IsExported(name) == name # << >> /\ name[1] >= 65 /\ name[1] <= 90

\* v.Field(i): a value reached through an unexported field is read-only.
ValueField(v, i) ==
    LET fld == Heap[v.id].fields[i]
    IN  [id |-> fld.v, ro |-> v.ro \/ ~IsExported(fld.Name)]

NumField(v) == Len(Heap[v.id].fields)
FieldName(v, i) == Heap[v.id].fields[i].Name

\* v.FieldByName(name): the zero Value when no field has that name.
FieldByName(v, name) ==
    LET hits == {i \in 1..NumField(v) : FieldName(v, i) = name}
    IN  IF hits = {} THEN Invalid
        ELSE ValueField(v, CHOOSE i \in hits : \A j \in hits : i <= j)

\* v.MapIndex(reflect.ValueOf(name)): a string key is not assignable to a
\* key type that is not string, and reflect panics.
MapIndex(v, name) ==
    IF Heap[v.id].keyKind # "String" THEN [ret |-> Invalid, panic |-> TRUE]
    ELSE LET hits == {i \in 1..Len(Heap[v.id].entries) :
                          Heap[v.id].entries[i].key = name}
         IN  IF hits = {} THEN [ret |-> Invalid, panic |-> FALSE]
             ELSE [ret |-> [id |-> Heap[v.id].entries[CHOOSE i \in hits : TRUE].v,
                            ro |-> v.ro],
                   panic |-> FALSE]

\* The order in which one range over a Go map visits its entries is not
\* specified; rev picks one of two orders for a run.
Reverse(s) == [i \in 1..Len(s) |-> s[Len(s) + 1 - i]]
MapRange(entries, rev) == IF rev THEN Reverse(entries) ELSE entries

(***************************************************************************)
(* package reflects                                                        *)
(***************************************************************************)
capitalize(name) ==
    IF name # << >> /\ name[1] >= 97 /\ name[1] <= 122
    THEN <<name[1] - 97 + 65>> \o Tail(name)
    ELSE name

uncapitalize_All(name) ==
    [i \in 1..Len(name) |->
        IF name[i] >= 65 /\ name[i] <= 90 THEN name[i] - 65 + 97 ELSE name[i]]

uncapitalize(name) ==
    IF name # << >> /\ name[1] >= 65 /\ name[1] <= 90
    THEN <<name[1] - 65 + 97>> \o Tail(name)
    ELSE name

Node(name, children) == [Name |-> name, Children |-> children]

NilData == [f |-> "nil"]

\* Root(doc): NodeSet{Data: func(yield) { yield(doc) }}
Root(doc) == [Data |-> [f |-> "Root", doc |-> doc], Err |-> NoErr]

\* New(doc) of package reflects
reflects_New(doc) == Root(Node(nEmpty, doc))

RECURSIVE reflects_unwrap_Deep(_)
reflects_unwrap_Deep(node) ==
    IF Kind(node) \in {"Pointer", "Interface"}
    THEN reflects_unwrap_Deep(ValueElem(node)) ELSE node

\* Unwrap one Pointer or Interface level, as lookup and rangeChildNodes do.
reflects_unwrap(node) ==
    IF Kind(node) \in {"Pointer", "Interface"} THEN ValueElem(node) ELSE node

reflects_lookup(node, name) ==
    LET n1 == reflects_unwrap(node)
        kind == Kind(n1)
    IN  CASE kind = "Struct" -> [ret |-> FieldByName(n1, capitalize(name)), panic |-> FALSE]
          [] kind = "Map" -> MapIndex(n1, name)
          [] OTHER -> [ret |-> Invalid, panic |-> FALSE]

isNode(v) ==
    IF Kind(v) = "Invalid" THEN FALSE
    ELSE LET kind == IF Kind(v) \in {"Pointer", "Interface"} THEN Kind(ValueElem(v)) ELSE Kind(v)
         IN  kind = "Struct" \/ kind = "Map"


(***************************************************************************)
(* The documents of the other adapters.                                    *)
(***************************************************************************)
NilVal == [t |-> "nil"]
StrVal(s) == [t |-> "string", s |-> s]
RefVal(id) == [t |-> "value", id |-> id]

\* package maps: a map[string]any is a sequence of entries with distinct
\* keys; any other value is a scalar.
MapV(entries) == [t |-> "map", e |-> entries]

MapsDoc ==
    MapV(<< [k |-> n_a, v |-> MapV(<< [k |-> n_a, v |-> MapV(<< >>)],
                                       [k |-> n_A, v |-> StrVal(n_x)] >>)],
            [k |-> n_A, v |-> MapV(<< [k |-> n_aB, v |-> MapV(<< >>)] >>)],
            [k |-> nEmpty, v |-> MapV(<< >>)],
            [k |-> n_aB, v |-> StrVal(n_x)] >>)

\* {role: {name: "x", tags: {a: {}, b: {}}}}
RoleDoc ==
    MapV(<< [k |-> n_role,
             v |-> MapV(<< [k |-> n_name, v |-> StrVal(n_x)],
                           [k |-> n_tags,
                            v |-> MapV(<< [k |-> n_a, v |-> MapV(<< >>)],
                                          [k |-> n_b, v |-> MapV(<< >>)] >>)] >>)] >>)

\* m[name] of a Go map: the value and whether the key is present.
MapGet(m, name) ==
    LET hits == {i \in 1..Len(m.e) : m.e[i].k = name}
    IN  IF hits = {} THEN [ok |-> FALSE, v |-> NilVal]
        ELSE [ok |-> TRUE, v |-> m.e[CHOOSE i \in hits : TRUE].v]

\* v.(map[string]any)
IsMap(v) == v.t = "map"

\* package xml: a Node has a name, attributes and children, each child a
\* *Node or xml.CharData.
XNode(name, attrs, kids) ==
    [t |-> "node", Name |-> name, Attr |-> attrs, Children |-> kids]
CharData(s) == [t |-> "chardata", s |-> s]

\* <a a="1"><A/>x<aB A="2"><aB/></aB><aB/></a>
XmlDoc ==
    XNode(n_a, << [Name |-> n_a, Value |-> n_1] >>,
          << XNode(n_A, << >>, << >>),
             CharData(n_x),
             XNode(n_aB, << [Name |-> n_A, Value |-> n_2] >>,
                   << XNode(n_aB, << >>, << >>) >>),
             XNode(n_aB, << >>, << >>) >>)

\* package html: a Node of golang.org/x/net/html, its children in
\* FirstChild/NextSibling order.
HNode(type, data, attrs, kids) ==
    [Type |-> type, Data |-> data, Attr |-> attrs, kids |-> kids]

\* <html><a a="1">x</a><a><b>x</b></a><!--x--></html>
HtmlDoc ==
    HNode("DocumentNode", nEmpty, << >>,
      << HNode("ElementNode", n_html, << >>,
           << HNode("ElementNode", n_a, << [Key |-> n_a, Val |-> n_1] >>,
                    << HNode("TextNode", n_x, << >>, << >>) >>),
              HNode("ElementNode", n_a, << >>,
                    << HNode("ElementNode", n_b, << >>,
                             << HNode("TextNode", n_x, << >>, << >>) >>) >>),
              HNode("CommentNode", n_x, << >>, << >>) >>) >>)


(***************************************************************************)
(* Running an iterator.                                                    *)
(***************************************************************************)
\* The state of a run before the iterator is called: k is the number of
\* items after which the consumer's loop body breaks (0: it never does).
st0(k, rev) ==
    [out |-> << >>, ret |-> TRUE, stopped |-> FALSE, late |-> 0,
     calls |-> 0, pulls |-> 0, steps |-> 0, after |-> 0, fault |-> FALSE,
     k |-> k, rev |-> rev, depth |-> 0, overflow |-> FALSE,
     val |-> NilVal, err |-> NoErr, first |-> TRUE, node |-> NilVal]

Returns(st, b) == [st EXCEPT !.ret = b]
Panics(st) == [st EXCEPT !.fault = TRUE, !.ret = FALSE]
\* The goroutine's stack is exhausted: the program ends with a fatal error.
Overflows(st) == [st EXCEPT !.fault = TRUE, !.overflow = TRUE, !.ret = FALSE]
\* What a loop does with the result of a callback: it stops on false.
Stops(st) == st.fault \/ ~st.ret

\* A node is visited or handed to a callback: after counts those that come
\* after the consumer returned false.
Visit(st) == [st EXCEPT !.after = IF st.stopped THEN @ + 1 ELSE @]

\* A value-or-error carrier, util.Value.
Carrier(x0, x1) == [X_0 |-> x0, X_1 |-> x1]

RECURSIVE Yield(_, _, _)
RECURSIVE Call(_, _, _)
RECURSIVE reflects_rangeFields(_, _, _, _)
RECURSIVE reflects_rangeEntries(_, _, _, _)
RECURSIVE reflects_rangeChildNodes(_, _, _)
RECURSIVE reflects_rangeAnyNodes(_, _, _, _)
RECURSIVE maps_rangeChildLoop(_, _, _, _)
RECURSIVE maps_rangeAnyLoop(_, _, _, _, _)
RECURSIVE maps_rangeAnyNodes(_, _, _, _)
RECURSIVE maps2_rangeAnyLoop(_, _, _, _)
RECURSIVE maps2_rangeAnyNodes(_, _, _)
RECURSIVE xml_yieldLoop(_, _, _, _, _)
RECURSIVE xml_rangeChildLoop(_, _, _, _)
RECURSIVE xml_rangeAnyLoop(_, _, _, _, _)
RECURSIVE xml_rangeAnyNodes(_, _, _, _)
RECURSIVE html_yieldLoop(_, _, _, _, _)
RECURSIVE html_rangeChildLoop(_, _, _, _)
RECURSIVE html_rangeAnyLoop(_, _, _, _, _)
RECURSIVE html_rangeAnyNodes(_, _, _, _)

\* The body of the loop that consumes an iterator: it keeps the item and
\* breaks after st.k items.
UserFn(item, st) ==
    LET out == Append(st.out, item)
        brk == st.k > 0 /\ Len(out) >= st.k
    IN  [st EXCEPT !.out = out,
                   !.late = IF st.stopped THEN @ + 1 ELSE @,
                   !.stopped = @ \/ brk,
                   !.ret = ~brk]

\* ---- package reflects ----

reflects_SelectFn_FoldsCase(name, node, yield, st) ==
    IF capitalize(node.Name) = capitalize(name)
    THEN Yield(yield, node, st) ELSE Returns(st, TRUE)

reflects_SelectFn(name, node, yield, st) ==
    IF node.Name = name THEN Yield(yield, node, st) ELSE Returns(st, TRUE)

reflects_yieldNode(node, name, yield, st) ==
    LET l == reflects_lookup(node.Children, name)
    IN  IF l.panic THEN Panics(st)
        ELSE IF isNode(l.ret) THEN Yield(yield, Node(name, l.ret), st)
        ELSE Returns(st, TRUE)

reflects_rangeFields_Backwards(n1, i, yield, st) ==
    IF i > NumField(n1) THEN Returns(st, TRUE)
    ELSE LET j == NumField(n1) + 1 - i
             v == ValueField(n1, j)
         IN  IF isNode(v)
             THEN LET s1 == Yield(yield, Node(uncapitalize(FieldName(n1, j)), v), Visit(st))
                  IN  IF Stops(s1) THEN Returns(s1, FALSE)
                      ELSE reflects_rangeFields(n1, i + 1, yield, s1)
             ELSE reflects_rangeFields(n1, i + 1, yield, Visit(st))

reflects_rangeFields(n1, i, yield, st) ==
    IF i > NumField(n1) THEN Returns(st, TRUE)
    ELSE LET v == ValueField(n1, i)
         IN  IF isNode(v)
             THEN LET s1 == Yield(yield, Node(uncapitalize(FieldName(n1, i)), v), Visit(st))
                  IN  IF Stops(s1) THEN Returns(s1, FALSE)
                      ELSE reflects_rangeFields(n1, i + 1, yield, s1)
             ELSE reflects_rangeFields(n1, i + 1, yield, Visit(st))

reflects_rangeEntries(n1, i, yield, st) ==
    LET entries == MapRange(Heap[n1.id].entries, st.rev)
    IN  IF i > Len(entries) THEN Returns(st, TRUE)
        ELSE LET v == [id |-> entries[i].v, ro |-> n1.ro]
             IN  IF isNode(v)
                 THEN LET s1 == Yield(yield, Node(entries[i].key, v), Visit(st))
                      IN  IF Stops(s1) THEN Returns(s1, FALSE)
                          ELSE reflects_rangeEntries(n1, i + 1, yield, s1)
                 ELSE reflects_rangeEntries(n1, i + 1, yield, Visit(st))

reflects_rangeChildNodes(node, yield, st) ==
    LET n1 == reflects_unwrap(node)
        kind == Kind(n1)
    IN  CASE kind = "Struct" -> reflects_rangeFields(n1, 1, yield, st)
          [] kind = "Map" ->
                IF Heap[n1.id].keyKind # "String" THEN Returns(st, TRUE)
                ELSE reflects_rangeEntries(n1, 1, yield, st)
          [] OTHER -> Returns(st, TRUE)

reflects_rangeAnyNodes_Prunes(name, node, yield, st) ==
    IF node.Name = name
    THEN LET s1 == Yield(yield, node, st)
         IN  IF Stops(s1) THEN Returns(s1, FALSE)
             ELSE reflects_rangeChildNodes(node.Children,
                      [k |-> "Any", name |-> name, next |-> yield], s1)
    ELSE Returns(st, TRUE)

reflects_rangeAnyNodes(name, node, yield, st) ==
    IF st.depth >= MaxDepth THEN Overflows(st)
    ELSE LET s0 == [st EXCEPT !.depth = @ + 1]
             s1 == IF node.Name = name THEN Yield(yield, node, s0) ELSE Returns(s0, TRUE)
             s2 == IF Stops(s1) THEN Returns(s1, FALSE)
                   ELSE reflects_rangeChildNodes(node.Children,
                            [k |-> "Any", name |-> name, next |-> yield], s1)
         IN  [s2 EXCEPT !.depth = st.depth]

\* The callback XGo_Attr passes to p.Data.
reflects_AttrFn(name, node, st) ==
    LET l == reflects_lookup(node.Children, name)
    IN  IF l.panic THEN Panics(st)
        ELSE IF IsValid(l.ret)
        THEN IF l.ret.ro THEN Panics(st)    \* v.Interface() of a read-only value
             ELSE [st EXCEPT !.val = RefVal(l.ret.id), !.err = NoErr, !.ret = FALSE,
                  !.stopped = TRUE]
        ELSE Returns(st, TRUE)

\* ---- package maps ----

maps_SelectFn(name, node, yield, st) ==
    IF node.Name = name THEN Yield(yield, node, st) ELSE Returns(st, TRUE)

maps_yieldNode(node, name, yield, st) ==
    LET v == MapGet(node.Children, name).v
    IN  IF IsMap(v) THEN Yield(yield, Node(name, v), st) ELSE Returns(st, TRUE)

maps_rangeChildLoop(entries, i, yield, st) ==
    IF i > Len(entries) THEN Returns(st, TRUE)
    ELSE IF IsMap(entries[i].v)
    THEN LET s1 == Yield(yield, Node(entries[i].k, entries[i].v), Visit(st))
         IN  IF Stops(s1) THEN Returns(s1, FALSE)
             ELSE maps_rangeChildLoop(entries, i + 1, yield, s1)
    ELSE maps_rangeChildLoop(entries, i + 1, yield, Visit(st))

maps_rangeChildNodes(node, yield, st) ==
    maps_rangeChildLoop(MapRange(node.Children.e, st.rev), 1, yield, st)

maps_rangeAnyLoop(name, entries, i, yield, st) ==
    IF i > Len(entries) THEN Returns(st, TRUE)
    ELSE IF IsMap(entries[i].v)
    THEN LET s1 == maps_rangeAnyNodes(name, Node(entries[i].k, entries[i].v), yield, Visit(st))
         IN  IF Stops(s1) THEN Returns(s1, FALSE)
             ELSE maps_rangeAnyLoop(name, entries, i + 1, yield, s1)
    ELSE maps_rangeAnyLoop(name, entries, i + 1, yield, Visit(st))

maps_rangeAnyNodes(name, node, yield, st) ==
    LET s1 == IF node.Name = name THEN Yield(yield, node, st) ELSE Returns(st, TRUE)
    IN  IF Stops(s1) THEN Returns(s1, FALSE)
        ELSE maps_rangeAnyLoop(name, MapRange(node.Children.e, st.rev), 1, yield, s1)

\* XGo_Any() without a name, and its rangeAnyNodes: the node, then every
\* entry that is a map[string]any, recursively.
maps2_rangeAnyLoop_Shallow(entries, i, yield, st) ==
    IF i > Len(entries) THEN Returns(st, TRUE)
    ELSE IF IsMap(entries[i].v)
    THEN LET s1 == Yield(yield, Node(entries[i].k, entries[i].v), Visit(st))
         IN  IF Stops(s1) THEN Returns(s1, FALSE)
             ELSE maps2_rangeAnyLoop(entries, i + 1, yield, s1)
    ELSE maps2_rangeAnyLoop(entries, i + 1, yield, Visit(st))

maps2_rangeAnyLoop(entries, i, yield, st) ==
    IF i > Len(entries) THEN Returns(st, TRUE)
    ELSE IF IsMap(entries[i].v)
    THEN LET s1 == maps2_rangeAnyNodes(Node(entries[i].k, entries[i].v), yield, Visit(st))
         IN  IF Stops(s1) THEN Returns(s1, FALSE)
             ELSE maps2_rangeAnyLoop(entries, i + 1, yield, s1)
    ELSE maps2_rangeAnyLoop(entries, i + 1, yield, Visit(st))

maps2_rangeAnyNodes(node, yield, st) ==
    LET s1 == Yield(yield, node, st)
    IN  IF Stops(s1) THEN Returns(s1, FALSE)
        ELSE maps2_rangeAnyLoop(MapRange(node.Children.e, st.rev), 1, yield, s1)

maps_AttrFn(name, node, st) ==
    LET g == MapGet(node.Children, name)
    IN  IF g.ok THEN [st EXCEPT !.val = g.v, !.err = NoErr, !.ret = FALSE,
                  !.stopped = TRUE]
        ELSE Returns(st, TRUE)

maps_yieldAttr_SkipsAbsent(node, name, yield, st) ==
    LET g == MapGet(node.Children, name)
    IN  IF g.ok THEN Yield(yield, Carrier(g.v, NoErr), st)
        ELSE Returns(st, TRUE)

maps_yieldAttr(node, name, yield, st) ==
    LET g == MapGet(node.Children, name)
    IN  IF g.ok THEN Yield(yield, Carrier(g.v, NoErr), st)
        ELSE Yield(yield, Carrier(NilVal, ErrNotFound), st)

\* ---- package xml ----

IsXNode(c) == c.t = "node"

xml_selectNode(node, name, yield, st) ==
    IF node.Name = name THEN Yield(yield, node, st) ELSE Returns(st, TRUE)

xml_yieldLoop_FirstOnly(kids, i, name, yield, st) ==
    IF i > Len(kids) THEN Returns(st, TRUE)
    ELSE IF IsXNode(kids[i]) /\ kids[i].Name = name
    THEN Yield(yield, kids[i], st)
    ELSE xml_yieldLoop(kids, i + 1, name, yield, st)

xml_yieldLoop(kids, i, name, yield, st) ==
    IF i > Len(kids) THEN Returns(st, TRUE)
    ELSE IF IsXNode(kids[i]) /\ kids[i].Name = name
    THEN LET s1 == Yield(yield, kids[i], Visit(st))
         IN  IF Stops(s1) THEN Returns(s1, FALSE)
             ELSE xml_yieldLoop(kids, i + 1, name, yield, s1)
    ELSE xml_yieldLoop(kids, i + 1, name, yield, Visit(st))

xml_yieldNode(n, name, yield, st) == xml_yieldLoop(n.Children, 1, name, yield, st)

xml_rangeChildLoop(kids, i, yield, st) ==
    IF i > Len(kids) THEN Returns(st, TRUE)
    ELSE IF IsXNode(kids[i])
    THEN LET s1 == Yield(yield, kids[i], Visit(st))
         IN  IF Stops(s1) THEN Returns(s1, FALSE)
             ELSE xml_rangeChildLoop(kids, i + 1, yield, s1)
    ELSE xml_rangeChildLoop(kids, i + 1, yield, Visit(st))

xml_rangeChildNodes(n, yield, st) == xml_rangeChildLoop(n.Children, 1, yield, st)

xml_rangeAnyLoop(kids, i, name, yield, st) ==
    IF i > Len(kids) THEN Returns(st, TRUE)
    ELSE IF IsXNode(kids[i])
    THEN LET s1 == xml_rangeAnyNodes(kids[i], name, yield, Visit(st))
         IN  IF Stops(s1) THEN Returns(s1, FALSE)
             ELSE xml_rangeAnyLoop(kids, i + 1, name, yield, s1)
    ELSE xml_rangeAnyLoop(kids, i + 1, name, yield, Visit(st))

xml_rangeAnyNodes(n, name, yield, st) ==
    LET s1 == IF n.Name = name THEN Yield(yield, n, st) ELSE Returns(st, TRUE)
    IN  IF Stops(s1) THEN Returns(s1, FALSE)
        ELSE xml_rangeAnyLoop(n.Children, 1, name, yield, s1)

\* attrs[i] for the first attribute called name, 0 when there is none
AttrIndex(attrs, name, field) ==
    LET hits == {i \in 1..Len(attrs) : attrs[i][field] = name}
    IN  IF hits = {} THEN 0 ELSE CHOOSE i \in hits : \A j \in hits : i <= j

xml_AttrFn(name, node, st) ==
    LET i == AttrIndex(node.Attr, name, "Name")
    IN  IF i # 0
        THEN [st EXCEPT !.val = StrVal(node.Attr[i].Value), !.err = NoErr, !.ret = FALSE,
                  !.stopped = TRUE]
        ELSE Returns(st, TRUE)

\* the first of the children at the indices hits, 0 when there is none
FirstKid(hits) ==
    IF hits = {} THEN 0 ELSE CHOOSE i \in hits : \A j \in hits : i <= j

xml_nodeAttr(node, name, yield, st) ==
    LET t == FirstKid({c \in 1..Len(node.Children) :
                              node.Children[c].t = "chardata"})
        i == AttrIndex(node.Attr, name, "Name")
    IN  IF name = n__text /\ t # 0
        THEN Yield(yield, Carrier(StrVal(node.Children[t].s), NoErr), st)
        ELSE IF name # n__text /\ i # 0
        THEN Yield(yield, Carrier(StrVal(node.Attr[i].Value), NoErr), st)
        ELSE LET s1 == Yield(yield, Carrier(StrVal(<< >>), ErrNotFound), st)
             IN  IF s1.fault THEN s1 ELSE Returns(s1, TRUE)

\* ---- package html ----

html_selectNode(node, name, yield, st) ==
    IF node.Type = "ElementNode" /\ node.Data = name
    THEN Yield(yield, node, st)
    ELSE Returns(st, TRUE)

html_yieldLoop(kids, i, name, yield, st) ==
    IF i > Len(kids) THEN Returns(st, TRUE)
    ELSE IF kids[i].Type = "ElementNode" /\ kids[i].Data = name
    THEN LET s1 == Yield(yield, kids[i], Visit(st))
         IN  IF Stops(s1) THEN Returns(s1, FALSE)
             ELSE html_yieldLoop(kids, i + 1, name, yield, s1)
    ELSE html_yieldLoop(kids, i + 1, name, yield, Visit(st))

html_yieldNode(n, name, yield, st) == html_yieldLoop(n.kids, 1, name, yield, st)

html_rangeChildLoop(kids, i, yield, st) ==
    IF i > Len(kids) THEN Returns(st, TRUE)
    ELSE LET s1 == Yield(yield, kids[i], Visit(st))
         IN  IF Stops(s1) THEN Returns(s1, FALSE)
             ELSE html_rangeChildLoop(kids, i + 1, yield, s1)

html_rangeChildNodes(n, yield, st) == html_rangeChildLoop(n.kids, 1, yield, st)

html_rangeAnyLoop_IgnoresStop(kids, i, name, yield, st) ==
    IF i > Len(kids) THEN Returns(st, TRUE)
    ELSE LET s1 == html_rangeAnyNodes(kids[i], name, yield, Visit(st))
         IN  IF s1.fault THEN s1
             ELSE html_rangeAnyLoop(kids, i + 1, name, yield, s1)

html_rangeAnyLoop(kids, i, name, yield, st) ==
    IF i > Len(kids) THEN Returns(st, TRUE)
    ELSE LET s1 == html_rangeAnyNodes(kids[i], name, yield, Visit(st))
         IN  IF Stops(s1) THEN Returns(s1, FALSE)
             ELSE html_rangeAnyLoop(kids, i + 1, name, yield, s1)

html_rangeAnyNodes(n, name, yield, st) ==
    LET hit == IF name = n_textNode THEN n.Type = "TextNode"
               ELSE n.Type = "ElementNode" /\ n.Data = name
        s1 == IF hit THEN Yield(yield, n, st) ELSE Returns(st, TRUE)
    IN  IF Stops(s1) THEN Returns(s1, FALSE)
        ELSE html_rangeAnyLoop(n.kids, 1, name, yield, s1)

html_AttrFn(name, node, st) ==
    LET i == AttrIndex(node.Attr, name, "Key")
    IN  IF i # 0
        THEN [st EXCEPT !.val = StrVal(node.Attr[i].Val), !.err = NoErr, !.ret = FALSE,
                  !.stopped = TRUE]
        ELSE Returns(st, TRUE)

html_nodeAttr(node, name, yield, st) ==
    LET typ == CASE name = n__text -> "TextNode"
                 [] name = n__comment -> "CommentNode"
                 [] name = n__doctype -> "DoctypeNode"
                 [] OTHER -> "none"
        t == FirstKid({c \in 1..Len(node.kids) : node.kids[c].Type = typ})
        i == AttrIndex(node.Attr, name, "Key")
    IN  IF typ # "none" /\ t # 0
        THEN Yield(yield, Carrier(StrVal(node.kids[t].Data), NoErr), st)
        ELSE IF typ = "none" /\ i # 0
        THEN Yield(yield, Carrier(StrVal(node.Attr[i].Val), NoErr), st)
        ELSE LET s1 == Yield(yield, Carrier(StrVal(<< >>), ErrNotFound), st)
             IN  IF s1.fault THEN s1 ELSE Returns(s1, TRUE)

\* ---- the callbacks of Text, XGo_0, XGo_1 and XGo_Enum ----

\* Text: the first text child of the node, if it has one
TextFn(node, st) ==
    LET hits == IF pkg = "html"
                THEN {c \in 1..Len(node.kids) : node.kids[c].Type = "TextNode"}
                ELSE {c \in 1..Len(node.Children) : node.Children[c].t = "chardata"}
        t == FirstKid(hits)
        text == IF pkg = "html" THEN node.kids[t].Data ELSE node.Children[t].s
    IN  IF t # 0
        THEN [st EXCEPT !.val = StrVal(text), !.err = NoErr, !.ret = FALSE,
                        !.stopped = TRUE]
        ELSE Returns(st, TRUE)

\* XGo_0: key, val, err = k, n, nil; return false
XGo_0Fn(node, st) ==
    [st EXCEPT !.node = node, !.err = NoErr, !.ret = FALSE,
               !.late = IF st.stopped THEN @ + 1 ELSE @, !.stopped = TRUE]

XGo_1Fn_KeepsFirst(node, st) ==
    [st EXCEPT !.node = IF st.first THEN node ELSE @, !.err = NoErr,
               !.first = FALSE, !.ret = st.first]

\* XGo_1: the first node is kept; a second one is ErrMultiEntities
XGo_1Fn(node, st) ==
    IF st.first
    THEN [st EXCEPT !.node = node, !.err = NoErr, !.first = FALSE, !.ret = TRUE]
    ELSE [st EXCEPT !.err = ErrMultiEntities, !.ret = FALSE,
                    !.late = IF st.stopped THEN @ + 1 ELSE @, !.stopped = TRUE]

EnumFn_IgnoresStop(node, yield, st) ==
    LET s1 == Yield(yield, Root(node), st)
    IN  IF s1.fault THEN s1 ELSE Returns(s1, TRUE)

\* XGo_Enum: return yield(Root(node))
EnumFn(node, yield, st) == Yield(yield, Root(node), st)

\* ---- calling a callback, calling an iterator ----

Yield(cb, node, st) ==
    IF st.fault THEN st
    ELSE LET s == [Visit(st) EXCEPT !.steps = @ + 1]
         IN  CASE cb.k = "user" -> UserFn(node, s)
               [] cb.k = "Select" ->
                    (CASE pkg = "reflects" -> reflects_SelectFn(cb.name, node, cb.next, s)
                      [] pkg = "maps" -> maps_SelectFn(cb.name, node, cb.next, s)
                      [] pkg = "xml" -> xml_selectNode(node, cb.name, cb.next, s)
                      [] pkg = "html" -> html_selectNode(node, cb.name, cb.next, s))
               [] cb.k = "Elem" ->
                    (CASE pkg = "reflects" -> reflects_yieldNode(node, cb.name, cb.next, s)
                      [] pkg = "maps" -> maps_yieldNode(node, cb.name, cb.next, s)
                      [] pkg = "xml" -> xml_yieldNode(node, cb.name, cb.next, s)
                      [] pkg = "html" -> html_yieldNode(node, cb.name, cb.next, s))
               [] cb.k = "Child" ->
                    (CASE pkg = "reflects" -> reflects_rangeChildNodes(node.Children, cb.next, s)
                      [] pkg = "maps" -> maps_rangeChildNodes(node, cb.next, s)
                      [] pkg = "xml" -> xml_rangeChildNodes(node, cb.next, s)
                      [] pkg = "html" -> html_rangeChildNodes(node, cb.next, s))
               [] cb.k = "Any" ->
                    (CASE pkg = "reflects" -> reflects_rangeAnyNodes(cb.name, node, cb.next, s)
                      [] pkg = "maps" -> maps_rangeAnyNodes(cb.name, node, cb.next, s)
                      [] pkg = "xml" -> xml_rangeAnyNodes(node, cb.name, cb.next, s)
                      [] pkg = "html" -> html_rangeAnyNodes(node, cb.name, cb.next, s))
               [] cb.k = "AnyAll" -> maps2_rangeAnyNodes(node, cb.next, s)
               [] cb.k = "Attr" ->
                    (CASE pkg = "reflects" -> reflects_AttrFn(cb.name, node, s)
                      [] pkg = "maps" -> maps_AttrFn(cb.name, node, s)
                      [] pkg = "xml" -> xml_AttrFn(cb.name, node, s)
                      [] pkg = "html" -> html_AttrFn(cb.name, node, s))
               [] cb.k = "AttrSet" ->
                    (CASE pkg = "maps" -> maps_yieldAttr(node, cb.name, cb.next, s)
                      [] pkg = "xml" -> xml_nodeAttr(node, cb.name, cb.next, s)
                      [] pkg = "html" -> html_nodeAttr(node, cb.name, cb.next, s))
               [] cb.k = "Text" -> TextFn(node, s)
               [] cb.k = "XGo_0" -> XGo_0Fn(node, s)
               [] cb.k = "XGo_1" -> XGo_1Fn(node, s)
               [] cb.k = "Enum" -> EnumFn(node, cb.next, s)

\* Calling an iter.Seq: a nil func panics; the func literal of Root and New
\* yields its one node; the func literal of a transformation calls p.Data
\* with its own callback.
Call(data, yield, st) ==
    IF st.fault THEN st
    ELSE CASE data.f = "nil" -> Panics(st)
           [] data.f = "Root" ->
                Yield(yield, data.doc, [st EXCEPT !.calls = @ + 1, !.pulls = @ + 1])
           [] OTHER ->
                Call(data.p.Data, [k |-> data.f, name |-> data.name, next |-> yield], st)

(***************************************************************************)
(* The methods of NodeSet.                                                 *)
(***************************************************************************)
User == [k |-> "user"]

Failed(err) == [Data |-> NilData, Err |-> err]
Closure(f, p, name) == [Data |-> [f |-> f, p |-> p, name |-> name], Err |-> NoErr]

XGo_Select(p, name) == IF p.Err # NoErr THEN p ELSE Closure("Select", p, name)
XGo_Elem(p, name) == IF p.Err # NoErr THEN p ELSE Closure("Elem", p, name)
XGo_Child_Unchecked(p) == Closure("Child", p, nEmpty)
XGo_Child(p) == IF p.Err # NoErr THEN p ELSE Closure("Child", p, nEmpty)
XGo_Any(p, name) == IF p.Err # NoErr THEN p ELSE Closure("Any", p, name)
\* XGo_Any() of package maps, the variant without a name
maps2_XGo_Any(p) == IF p.Err # NoErr THEN p ELSE Closure("AnyAll", p, nEmpty)

\* for x := range p.XGo_Enum() { ... }, the body breaking after k items
XGo_Enum(p, k, rev) ==
    IF p.Err # NoErr THEN st0(k, rev)          \* dql.NopIter
    ELSE IF pkg = "html" THEN Call(p.Data, User, st0(k, rev))
    ELSE Call(p.Data, [k |-> "Enum", next |-> User], st0(k, rev))

\* XGo_Attr, the variant that returns (val, err)
XGo_Attr(p, name, rev) ==
    IF p.Err # NoErr
    THEN [st0(0, rev) EXCEPT !.val = StrVal(<< >>), !.err = p.Err]
    ELSE Call(p.Data, [k |-> "Attr", name |-> name],
              [st0(0, rev) EXCEPT !.err = ErrNotFound])

\* XGo_Attr, the variant that returns a ValueSet, and a loop over the
\* ValueSet's Data that breaks after k carriers
XGo_AttrSet(p, name, k, rev) ==
    IF p.Err # NoErr THEN [st0(k, rev) EXCEPT !.err = p.Err]
    ELSE Call(p.Data, [k |-> "AttrSet", name |-> name, next |-> User], st0(k, rev))

XGo_0_Unchecked(p, rev) ==
    Call(p.Data, [k |-> "XGo_0"], [st0(0, rev) EXCEPT !.err = ErrNotFound])

XGo_0(p, rev) ==
    IF p.Err # NoErr THEN [st0(0, rev) EXCEPT !.err = p.Err]
    ELSE Call(p.Data, [k |-> "XGo_0"], [st0(0, rev) EXCEPT !.err = ErrNotFound])

\* Text of xml and html: no test of p.Err before p.Data is called
NodeSet_Text(p, rev) ==
    Call(p.Data, [k |-> "Text"], [st0(0, rev) EXCEPT !.err = ErrNotFound])

\* Int of xml and html: Text, then dql.Int__0 of the text, which either
\* parses it (parsed) or reports an error.
NodeSet_Int(p, rev, parsed) ==
    LET t == NodeSet_Text(p, rev)
    IN  IF t.fault THEN t
        ELSE IF t.err # NoErr THEN [t EXCEPT !.val = [t |-> "int", i |-> 0]]
        ELSE IF parsed THEN [t EXCEPT !.val = [t |-> "int", i |-> 1]]
        ELSE [t EXCEPT !.val = [t |-> "int", i |-> 0], !.err = ErrSyntax]

\* One of package html: panic("todo")
html_One(p) == Panics(st0(0, FALSE))

XGo_1(p, rev) ==
    IF p.Err # NoErr THEN [st0(0, rev) EXCEPT !.err = p.Err]
    ELSE Call(p.Data, [k |-> "XGo_1"], [st0(0, rev) EXCEPT !.err = ErrNotFound])

(***************************************************************************)
(* The state machine.                                                      *)
(***************************************************************************)
Pkgs == {"reflects", "maps", "xml", "html"}

\* The names the operations are called with.
Names ==
    CASE pkg = "html" -> {nEmpty, n_a, n_b, n_html}
      [] pkg = "reflects" -> {nEmpty, n_a, n_A, n_aB, n_iM}
      [] OTHER -> {nEmpty, n_a, n_A, n_aB}

\* The documents, and the NodeSet New makes of each.
Roots(pk) ==
    CASE pk = "reflects" -> {Node(nEmpty, ValueOf(15)), Node(nEmpty, ValueOf(18)),
                             Node(nEmpty, ValueOf(6)), Node(nEmpty, ValueOf(7)),
                             Node(nEmpty, ValueOf(17)), Node(nEmpty, Invalid)}
      [] pk = "maps" -> {Node(nEmpty, MapsDoc), Node(nEmpty, RoleDoc)}
      [] pk = "xml" -> {XmlDoc}
      [] pk = "html" -> {HtmlDoc}

RECURSIVE Depth(_)
Depth(p) ==
    IF p.Data.f \in {"nil", "Root"} THEN 0 ELSE 1 + Depth(p.Data.p)

NoRes == [op |-> "none"]
NoOp == [f |-> "none", name |-> nEmpty]

Result(o, name, st) ==
    [op |-> o, name |-> name, k |-> st.k, out |-> st.out, val |-> st.val,
     err |-> st.err, node |-> st.node, fault |-> st.fault, calls |-> st.calls,
     pulls |-> st.pulls, steps |-> st.steps, late |-> st.late,
     after |-> st.after, overflow |-> st.overflow,
     stopped |-> st.stopped, rev |-> st.rev, again |-> NoRes]

\* What a loader can meet: all goes well, the input does not parse, or the
\* file or URL does not open.
LoadCases ==
    {[open |-> NoErr, parse |-> NoErr],
     [open |-> NoErr, parse |-> ErrParse],
     [open |-> ErrOpen, parse |-> NoErr]}

\* New(r): the parsed document, or NodeSet{Err: err}
New(doc, in) == IF in.parse # NoErr THEN Failed(in.parse) ELSE Root(doc)

\* Source(r) of a string: stream.Open, then New
Source(doc, in) == IF in.open # NoErr THEN Failed(in.open) ELSE New(doc, in)

\* Nothing registered, nothing fetched.
NoFetch == [convs |-> << >>, regs |-> << >>, last |-> [op |-> "none"]]

\* t := &T2{}; t.P = t: a value that points back to itself
CyclicRoot == Node(nEmpty, ValueOf(21))

\* The documents of Init and, in package reflects, the cyclic one.
CycleInit ==
    /\ fetch = NoFetch
    /\ pkg \in Pkgs
    /\ root \in Roots(pkg) \cup (IF pkg = "reflects" THEN {CyclicRoot} ELSE {})
    /\ input \in LoadCases
    /\ ns = Source(root, input)
    /\ prev = ns
    /\ op = NoOp
    /\ res = NoRes

Init ==
    /\ fetch = NoFetch
    /\ pkg \in Pkgs
    /\ root \in Roots(pkg)
    /\ input \in LoadCases
    /\ ns = Source(root, input)
    /\ prev = ns
    /\ op = NoOp
    /\ res = NoRes

\* A transformation makes a new NodeSet of the current one; a terminal
\* operation consumes the current NodeSet and ends the run.
Transform(f, name, q) ==
    /\ res = NoRes
    /\ Depth(ns) < MaxOps
    /\ ns' = q
    /\ prev' = ns
    /\ op' = [f |-> f, name |-> name]
    /\ res' = NoRes
    /\ UNCHANGED <<fetch, pkg, root, input>>

Terminal_StoresErr(r) ==
    /\ res = NoRes
    /\ res' = r
    /\ ns' = IF r.err # NoErr /\ ~r.fault THEN Failed(r.err) ELSE ns
    /\ UNCHANGED <<fetch, pkg, root, input, prev, op>>

Terminal(r) ==
    /\ res = NoRes
    /\ res' = r
    /\ UNCHANGED <<fetch, pkg, root, input, ns, prev, op>>

Select == \E name \in Names : Transform("Select", name, XGo_Select(ns, name))

Elem == \E name \in Names : Transform("Elem", name, XGo_Elem(ns, name))

Child == Transform("Child", nEmpty, XGo_Child(ns))

Any == \E name \in Names : Transform("Any", name, XGo_Any(ns, name))

AnyAll == pkg = "maps" /\ Transform("AnyAll", nEmpty, maps2_XGo_Any(ns))

Enum ==
    \E k \in 0..MaxStop, rev \in BOOLEAN :
        Terminal(Result("Enum", nEmpty, XGo_Enum(ns, k, rev)))

Attr_SetsErr ==
    \E name \in Names, rev \in BOOLEAN :
        LET r == Result("Attr", name, XGo_Attr(ns, name, rev))
        IN  /\ res = NoRes
            /\ res' = r
            /\ ns' = IF r.err = NoErr THEN ns ELSE Failed(r.err)
            /\ UNCHANGED <<fetch, pkg, root, input, prev, op>>

Attr ==
    \E name \in Names, rev \in BOOLEAN :
        Terminal(Result("Attr", name, XGo_Attr(ns, name, rev)))

AttrSet ==
    /\ pkg \in {"maps", "xml", "html"}
    /\ \E name \in Names \cup {n__text}, k \in 0..MaxStop, rev \in BOOLEAN :
        Terminal(Result("AttrSet", name, XGo_AttrSet(ns, name, k, rev)))

First ==
    /\ pkg \in {"maps", "xml", "html"}
    /\ \E rev \in BOOLEAN : Terminal(Result("XGo_0", nEmpty, XGo_0(ns, rev)))

Text ==
    /\ pkg \in {"xml", "html"}
    /\ \E rev \in BOOLEAN : Terminal(Result("Text", nEmpty, NodeSet_Text(ns, rev)))

\* Int of NodeSet (the name Int is that of the set of integers)
TextInt ==
    /\ pkg \in {"xml", "html"}
    /\ \E rev \in BOOLEAN, parsed \in BOOLEAN :
          Terminal(Result("Int", nEmpty, NodeSet_Int(ns, rev, parsed)))

One ==
    /\ pkg = "html"
    /\ Terminal(Result("One", nEmpty, html_One(ns)))

Single ==
    /\ pkg \in {"maps", "xml", "html"}
    /\ \E rev \in BOOLEAN : Terminal(Result("XGo_1", nEmpty, XGo_1(ns, rev)))

\* After a terminal operation the caller ranges over the same NodeSet, and
\* over the one it was made of, once more and to the end.
Again ==
    /\ res # NoRes
    /\ res.again = NoRes
    /\ res' = [res EXCEPT !.again =
                   [op |-> "Again",
                    ns |-> XGo_Enum(ns, 0, res.rev),
                    prev |-> XGo_Enum(prev, 0, res.rev)]]
    /\ UNCHANGED <<fetch, pkg, root, input, ns, prev, op>>

Next ==
    \/ Select \/ Elem \/ Child \/ Any \/ AnyAll
    \/ Enum \/ Attr \/ AttrSet \/ Text \/ TextInt \/ First \/ One \/ Single
    \/ Again

Spec == Init /\ [][Next]_vars

CycleSpec == CycleInit /\ [][Next]_vars

(***************************************************************************)
(* package fetcher.  convs is a Go map, here the sequence of its entries   *)
(* with distinct keys; a converter and a URL function are named, and a     *)
(* call of one is recorded with its arguments.                             *)
(***************************************************************************)
FetchTypes == {"t1", "t2", "t3"}
Convs == {"conv1", "conv2"}
URLFns == {"url1", "url2"}
FetchInputs == {"in1", "in2"}
FetchSources == {"src1"}

\* convs[fetchType]: the entry and whether the key is present
convs_get(convs, fetchType) ==
    LET hits == {i \in 1..Len(convs) : convs[i].k = fetchType}
    IN  IF hits = {} THEN [ok |-> FALSE, page |-> NilVal]
        ELSE [ok |-> TRUE, page |-> convs[CHOOSE i \in hits : TRUE].page]

\* convs[fetchType] = page
convs_put(convs, fetchType, page) ==
    IF convs_get(convs, fetchType).ok
    THEN [i \in 1..Len(convs) |->
             IF convs[i].k = fetchType THEN [k |-> fetchType, page |-> page]
             ELSE convs[i]]
    ELSE Append(convs, [k |-> fetchType, page |-> page])

\* page.URL(input): the string the URL function returns
URLOf(fn, in) == <<fn, in>>

\* convert: html.Source(source), then conv.Call with input and the document
convert(conv, in, source) ==
    [calls |-> << [fn |-> conv, input |-> in, doc |-> [Source |-> source]] >>,
     val |-> [by |-> conv, input |-> in, source |-> source]]

Do_Unchecked(convs, fetchType, in) ==
    LET page == IF convs = << >> THEN [Conv |-> "conv1", URL |-> "url1"]
                ELSE convs[1].page
        c == convert(page.Conv, in, URLOf(page.URL, in))
    IN  [val |-> c.val, err |-> NoErr,
         calls |-> << [fn |-> page.URL, input |-> in] >> \o c.calls]

Do(convs, fetchType, in) ==
    LET g == convs_get(convs, fetchType)
    IN  IF ~g.ok THEN [val |-> NilVal, err |-> ErrUnknownPageType, calls |-> << >>]
        ELSE LET c == convert(g.page.Conv, in, URLOf(g.page.URL, in))
             IN  [val |-> c.val, err |-> NoErr,
                  calls |-> << [fn |-> g.page.URL, input |-> in] >> \o c.calls]

From(convs, fetchType, in, source) ==
    LET g == convs_get(convs, fetchType)
    IN  IF ~g.ok THEN [val |-> NilVal, err |-> ErrUnknownPageType, calls |-> << >>]
        ELSE LET c == convert(g.page.Conv, in, source)
             IN  [val |-> c.val, err |-> NoErr, calls |-> c.calls]

Register ==
    /\ Len(fetch.regs) < MaxRegs
    /\ \E fetchType \in FetchTypes, conv \in Convs, urlOf \in URLFns :
          fetch' = [fetch EXCEPT
                       !.convs = convs_put(@, fetchType, [Conv |-> conv, URL |-> urlOf]),
                       !.regs = Append(@, [fetchType |-> fetchType, conv |-> conv,
                                           urlOf |-> urlOf])]
    /\ UNCHANGED <<pkg, root, input, ns, prev, op, res>>

CallDo ==
    /\ \E fetchType \in FetchTypes, in \in FetchInputs :
          fetch' = [fetch EXCEPT
                       !.last = [op |-> "Do", fetchType |-> fetchType, input |-> in,
                                 source |-> NilVal, regs |-> fetch.regs,
                                 ret |-> Do(fetch.convs, fetchType, in)]]
    /\ UNCHANGED <<pkg, root, input, ns, prev, op, res>>

CallFrom ==
    /\ \E fetchType \in FetchTypes, in \in FetchInputs, source \in FetchSources :
          fetch' = [fetch EXCEPT
                       !.last = [op |-> "From", fetchType |-> fetchType, input |-> in,
                                 source |-> source, regs |-> fetch.regs,
                                 ret |-> From(fetch.convs, fetchType, in, source)]]
    /\ UNCHANGED <<pkg, root, input, ns, prev, op, res>>

FetchInit ==
    /\ fetch = NoFetch
    /\ pkg = "html"
    /\ root = HtmlDoc
    /\ input = [open |-> NoErr, parse |-> NoErr]
    /\ ns = Source(root, input)
    /\ prev = ns
    /\ op = NoOp
    /\ res = NoRes

FetchNext == Register \/ CallDo \/ CallFrom

FetchSpec == FetchInit /\ [][FetchNext]_vars

(***************************************************************************)
(* What the claims are stated with.                                        *)
(***************************************************************************)
Transforms == {"Select", "Elem", "Child", "Any"}

\* The node an enumeration handed to the loop body: XGo_Enum of package
\* html yields the node, the others yield Root(node).
ItemNode(x) == IF pkg = "html" THEN x ELSE x.Data.doc
ItemNodes(out) == [i \in 1..Len(out) |-> ItemNode(out[i])]

\* All the nodes of a NodeSet, in the order a full enumeration yields them.
Nodes(p, rev) == ItemNodes(XGo_Enum(p, 0, rev).out)

\* The name a node was reached by.
NameOf(n) == IF pkg = "html" THEN n.Data ELSE n.Name

\* The last transformation's result was enumerated to the end.
Enumerated == res.op = "Enum" /\ res.k = 0 /\ ~res.fault

\* The nodes the NodeSet before the last transformation held.
Inputs == Nodes(prev, res.rev)

\* The direct children of one node, as XGo_Child enumerates them.
KidsOf(n, rev) == Nodes(XGo_Child(Root(n)), rev)

RECURSIVE PreOrder(_, _), FlatPre(_, _)
\* A node followed by its descendants, each parent before its children.
PreOrder(n, rev) == << n >> \o FlatPre(KidsOf(n, rev), rev)

FlatPre(s, rev) ==
    IF s = << >> THEN << >>
    ELSE PreOrder(Head(s), rev) \o FlatPre(Tail(s), rev)

Named(s, name) == SelectSeq(s, LAMBDA n : NameOf(n) = name)

\* What a consumer that stops after k items (never, if k = 0) sees of s.
Consumed(s, k) ==
    IF k = 0 \/ k >= Len(s) THEN s ELSE SubSeq(s, 1, k)

\* C1: a transformation (Select, Elem, Child, Any) of a NodeSet whose Err is
\* set returns that same NodeSet, error included, and enumerating the result
\* neither calls the producer nor any callback, nor faults.
C1_ErrorShortCircuits ==
    (prev.Err # NoErr /\ op.f \in Transforms) =>
        /\ ns = prev
        /\ ns.Err = prev.Err
        /\ res.op = "Enum" =>
              /\ res.calls = 0 /\ res.steps = 0
              /\ res.out = << >> /\ ~res.fault

C1_Witness ==
    /\ prev.Err = ErrParse /\ op.f = "Any" /\ pkg = "reflects"
    /\ res.op = "Enum" /\ res.calls = 0

\* C2: on a NodeSet whose Err is set, XGo_Attr (both variants), XGo_0 and
\* XGo_1 report exactly that error, return no node and no value, and do not
\* call the producer.
C2_TerminalsReportError ==
    (ns.Err # NoErr /\ res.op \in {"Attr", "AttrSet", "XGo_0", "XGo_1"}) =>
        /\ res.err = ns.Err
        /\ res.calls = 0 /\ res.steps = 0 /\ ~res.fault
        /\ res.node = NilVal /\ res.out = << >>
        /\ res.val \in {NilVal, StrVal(<< >>)}

C2_Witness ==
    /\ ns.Err = ErrParse /\ res.op = "XGo_1" /\ res.err = ErrParse

\* C3: XGo_1 on a NodeSet without error: ErrNotFound when it holds no node,
\* its node and no error when it holds exactly one, ErrMultiEntities when it
\* holds two or more.
C3_SingleLaws ==
    (res.op = "XGo_1" /\ ns.Err = NoErr) =>
        LET all == Nodes(ns, res.rev)
        IN  /\ ~res.fault
            /\ Len(all) = 0 => res.err = ErrNotFound
            /\ Len(all) = 1 => res.err = NoErr /\ res.node = all[1]
            /\ Len(all) >= 2 => res.err = ErrMultiEntities

C3_Witness ==
    /\ res.op = "XGo_1" /\ ns.Err = NoErr
    /\ Len(Nodes(ns, res.rev)) >= 2 /\ res.err = ErrMultiEntities

\* C4: XGo_Any("") yields every input node and every descendant of it, each
\* parent before its children, whatever their names.
C4_AnyEmptyYieldsAll ==
    (op.f = "Any" /\ op.name = nEmpty /\ prev.Err = NoErr /\ Enumerated) =>
        ItemNodes(res.out) = FlatPre(Inputs, res.rev)

C6_SelectExact ==
    (/\ op.f = "Select" /\ prev.Err = NoErr
     /\ pkg # "html" /\ res.op = "Enum" /\ ~res.fault) =>
        ItemNodes(res.out) = Consumed(Named(Inputs, op.name), res.k)

C6_Witness ==
    /\ op.f = "Select" /\ op.name = n_a /\ Enumerated
    /\ Len(res.out) = 1
    /\ \E i \in 1..Len(Inputs) : NameOf(Inputs[i]) = n_A

\* The element children of n called name, in document order.
ElementsNamed(n, name, rev) ==
    SelectSeq(KidsOf(n, rev),
              LAMBDA c : NameOf(c) = name
                         /\ (pkg = "html" => c.Type = "ElementNode"))

RECURSIVE FlatElements(_, _, _)
FlatElements(s, name, rev) ==
    IF s = << >> THEN << >>
    ELSE ElementsNamed(Head(s), name, rev)
         \o FlatElements(Tail(s), name, rev)

NoChildNamed(name) ==
    \A i \in 1..Len(Inputs) : ElementsNamed(Inputs[i], name, res.rev) = << >>

\* C8: XGo_Elem(name) on a NodeSet without error none of whose nodes has a
\* child called name yields no node, sets no error and does not fault.
C8_ElemAbsentIsEmpty ==
    (/\ op.f = "Elem" /\ prev.Err = NoErr
     /\ res.op = "Enum" /\ res.k = 0 /\ NoChildNamed(op.name)) =>
        /\ res.out = << >>
        /\ ns.Err = NoErr
        /\ ~res.fault

\* The byte c in lower case, and the name s with its first byte in lower case.
ToLower(c) == IF c \in 65..90 THEN c + 32 ELSE c
Lower1(s) == IF s = << >> THEN s ELSE << ToLower(s[1]) >> \o Tail(s)

\* The fields of the struct v that hold a node, in declared order, each under
\* its declared name with the first byte in lower case.
NodeFields(v) ==
    SelectSeq([j \in 1..NumField(v) |-> j], LAMBDA j : isNode(ValueField(v, j)))

RecordKids(v) ==
    [k \in 1..Len(NodeFields(v)) |->
        Node(Lower1(FieldName(v, NodeFields(v)[k])),
             ValueField(v, NodeFields(v)[k]))]

\* The entries of the string-keyed map v that hold a node, each under its key.
DictKids(v, rev) ==
    LET all == MapRange(Heap[v.id].entries, rev)
        kids == [k \in 1..Len(all) |->
                    Node(all[k].key, [id |-> all[k].v, ro |-> v.ro])]
    IN  SelectSeq(kids, LAMBDA n : isNode(n.Children))

InRange(x, s) == \E k \in 1..Len(s) : s[k] = x

\* C9: in package reflects, XGo_Elem reaches a field declared with an
\* upper-case first letter by the declared name with its first byte in lower
\* case, XGo_Child reports every field under its declared name with only the
\* first byte in lower case, and map keys are matched and reported as is.
C9_CaseMapping ==
    (/\ pkg = "reflects" /\ prev.Err = NoErr /\ Enumerated
     /\ op.f \in {"Child", "Elem"}) =>
        \A i \in 1..Len(Inputs) :
            LET n == Inputs[i]
                v == reflects_unwrap(n.Children)
                got == IF op.f = "Child" THEN KidsOf(n, res.rev)
                       ELSE Nodes(XGo_Elem(Root(n), op.name), res.rev)
                dict == Kind(v) = "Map" /\ Heap[v.id].keyKind = "String"
            IN  /\ \A k \in 1..Len(got) : InRange(got[k], ItemNodes(res.out))
                /\ (Kind(v) = "Struct" /\ op.f = "Child") =>
                        got = RecordKids(v)
                /\ (Kind(v) = "Struct" /\ op.f = "Elem") =>
                        \A j \in 1..NumField(v) :
                            (/\ IsExported(FieldName(v, j))
                             /\ isNode(ValueField(v, j))
                             /\ op.name = Lower1(FieldName(v, j))) =>
                                got = << Node(op.name, ValueField(v, j)) >>
                /\ (dict /\ op.f = "Child") => got = DictKids(v, res.rev)
                /\ (dict /\ op.f = "Elem") =>
                        got = Named(DictKids(v, res.rev), op.name)

C9_Witness ==
    /\ pkg = "reflects" /\ prev = Root(Node(nEmpty, ValueOf(15)))
    /\ op.f = "Child" /\ Enumerated
    /\ Len(res.out) = 3 /\ NameOf(ItemNodes(res.out)[1]) = n_aB

\* What a node's value must be: a struct or a map with string keys, after one
\* pointer or interface is unwrapped.
Traversable(v) ==
    /\ IsValid(v)
    /\ LET u == reflects_unwrap(v)
       IN  \/ Kind(u) = "Struct"
           \/ Kind(u) = "Map" /\ Heap[u.id].keyKind = "String"

\* C10: in package reflects, every child XGo_Child or XGo_Any yields holds a
\* struct or a map with string keys, after one pointer or interface is
\* unwrapped.
C10_ChildrenAreTraversable ==
    (/\ pkg = "reflects" /\ Enumerated
     /\ \/ op.f = "Child" /\ prev.Err = NoErr
        \/ op.f = "Any" /\ prev = Root(root)) =>
        \A k \in 1..Len(res.out) : Traversable(ItemNodes(res.out)[k].Children)

\* The node holds a map whose key type is not string.
NonStringDict(n) ==
    LET u == reflects_unwrap(n.Children)
    IN  Kind(u) = "Map" /\ Heap[u.id].keyKind # "String"

AllNonStringDicts(s) ==
    s # << >> /\ \A i \in 1..Len(s) : NonStringDict(s[i])

\* C11: in package reflects, on nodes that hold a map whose key type is not
\* string, XGo_Child and XGo_Any("") yield no child, XGo_Elem yields nothing
\* and XGo_Attr returns ErrNotFound, all without a fault.
C11_NonStringKeysAreLeaves ==
    pkg = "reflects" =>
        /\ (/\ op.f \in {"Child", "Elem"} /\ prev.Err = NoErr
            /\ res.op = "Enum" /\ res.k = 0
            /\ AllNonStringDicts(Inputs)) =>
                ~res.fault /\ res.out = << >>
        /\ (/\ res.op = "Attr" /\ ns.Err = NoErr
            /\ AllNonStringDicts(Nodes(ns, res.rev))) =>
                ~res.fault /\ res.err = ErrNotFound

\* The NodeSet the last transformation returned, made again of prev and op.
Derived ==
    CASE op.f = "Select" -> XGo_Select(prev, op.name)
      [] op.f = "Elem" -> XGo_Elem(prev, op.name)
      [] op.f = "Child" -> XGo_Child(prev)
      [] op.f = "Any" -> XGo_Any(prev, op.name)
      [] op.f = "AnyAll" -> maps2_XGo_Any(prev)
      [] OTHER -> prev

\* Some carrier of s holds ErrNotFound.
SomeNotFound(s) == \E i \in 1..Len(s) : s[i].X_1 = ErrNotFound

C13_EarlyTermination ==
    (res.op = "Enum" /\ op.f \in Transforms) =>
        /\ res.late = 0
        /\ res.after = 0
        /\ res.stopped => Len(res.out) = res.k

C13_Witness ==
    /\ pkg = "html" /\ op.f = "Any" /\ Depth(ns) = 2
    /\ res.op = "Enum" /\ res.k = 1 /\ res.stopped
    /\ Len(Nodes(ns, res.rev)) >= 2

\* C14: XGo_0, and One where a package has it, on a NodeSet without error
\* returns the first node of the NodeSet, or ErrNotFound when there is none,
\* and its callback is called at most once: nothing is visited after the
\* first node.
C14_TakeFirst ==
    (res.op \in {"XGo_0", "One"} /\ ns.Err = NoErr) =>
        LET all == Nodes(ns, res.rev)
        IN  /\ ~res.fault
            /\ all = << >> => res.err = ErrNotFound /\ res.node = NilVal
            /\ all # << >> => res.err = NoErr /\ res.node = all[1]
            /\ res.late = 0 /\ res.after = 0

\* The least index of a non-empty set of indices.
Least(S) == CHOOSE i \in S : \A j \in S : i <= j

\* The attribute name of node n for the ValueSet variant of XGo_Attr of
\* packages maps, xml and html: whether n has it, and its value.
NodeAttr(n, name) ==
    LET none == [has |-> FALSE, v |-> NilVal]
        kidsOfType(t) == {c \in 1..Len(n.kids) : n.kids[c].Type = t}
        text == {c \in 1..Len(n.Children) : n.Children[c].t = "chardata"}
    IN  CASE pkg = "maps" ->
                LET hits == {i \in 1..Len(n.Children.e) : n.Children.e[i].k = name}
                IN  IF hits = {} THEN none
                    ELSE [has |-> TRUE, v |-> n.Children.e[Least(hits)].v]
          [] pkg = "xml" /\ name = n__text ->
                IF text = {} THEN none
                ELSE [has |-> TRUE, v |-> StrVal(n.Children[Least(text)].s)]
          [] pkg = "xml" /\ name # n__text ->
                LET hits == {i \in 1..Len(n.Attr) : n.Attr[i].Name = name}
                IN  IF hits = {} THEN none
                    ELSE [has |-> TRUE, v |-> StrVal(n.Attr[Least(hits)].Value)]
          [] pkg = "html" /\ name = n__text ->
                IF kidsOfType("TextNode") = {} THEN none
                ELSE [has |-> TRUE,
                      v |-> StrVal(n.kids[Least(kidsOfType("TextNode"))].Data)]
          [] pkg = "html" /\ name # n__text ->
                LET hits == {i \in 1..Len(n.Attr) : n.Attr[i].Key = name}
                IN  IF hits = {} THEN none
                    ELSE [has |-> TRUE, v |-> StrVal(n.Attr[Least(hits)].Val)]

\* C16: the ValueSet variant of XGo_Attr on a NodeSet without error, ranged
\* over to the end, yields one carrier for each node, in the order of the
\* nodes: the value and no error when the node has the attribute,
\* ErrNotFound and no value when it has not.
C16_OneCarrierPerNode ==
    (res.op = "AttrSet" /\ ns.Err = NoErr /\ res.k = 0) =>
        LET all == Nodes(ns, res.rev)
        IN  /\ ~res.fault
            /\ Len(res.out) = Len(all)
            /\ \A i \in 1..Len(all) :
                  LET a == NodeAttr(all[i], res.name)
                  IN  IF a.has
                      THEN res.out[i] = Carrier(a.v, NoErr)
                      ELSE /\ res.out[i].X_1 = ErrNotFound
                           /\ res.out[i].X_0 \in {NilVal, StrVal(<< >>)}

C16_Witness ==
    /\ res.op = "AttrSet" /\ ns.Err = NoErr /\ res.k = 0 /\ pkg = "xml"
    /\ Len(res.out) = 3
    /\ res.out[1].X_1 = ErrNotFound
    /\ res.out[2] = Carrier(StrVal(n_2), NoErr)

\* The name s with its first byte in upper case.
Upper1(s) ==
    IF s # << >> /\ s[1] \in 97..122 THEN << s[1] - 32 >> \o Tail(s) ELSE s

\* The attribute name of node n for the variant of XGo_Attr that returns
\* (val, err): whether n has it, and its value.
FirstAttr(n, name) ==
    LET none == [has |-> FALSE, v |-> NilVal]
        u == reflects_unwrap(n.Children)
    IN  CASE pkg = "reflects" /\ Kind(u) = "Struct" ->
                LET hits == {j \in 1..NumField(u) : FieldName(u, j) = Upper1(name)}
                IN  IF hits = {} THEN none
                    ELSE [has |-> TRUE, v |-> RefVal(ValueField(u, Least(hits)).id)]
          [] pkg = "reflects" /\ Kind(u) = "Map" ->
                LET e == Heap[u.id].entries
                    hits == {j \in 1..Len(e) : e[j].key = name}
                IN  IF hits = {} THEN none
                    ELSE [has |-> TRUE, v |-> RefVal(e[Least(hits)].v)]
          [] pkg = "reflects" -> none
          [] pkg = "maps" ->
                LET hits == {i \in 1..Len(n.Children.e) : n.Children.e[i].k = name}
                IN  IF hits = {} THEN none
                    ELSE [has |-> TRUE, v |-> n.Children.e[Least(hits)].v]
          [] pkg = "xml" ->
                LET hits == {i \in 1..Len(n.Attr) : n.Attr[i].Name = name}
                IN  IF hits = {} THEN none
                    ELSE [has |-> TRUE, v |-> StrVal(n.Attr[Least(hits)].Value)]
          [] pkg = "html" ->
                LET hits == {i \in 1..Len(n.Attr) : n.Attr[i].Key = name}
                IN  IF hits = {} THEN none
                    ELSE [has |-> TRUE, v |-> StrVal(n.Attr[Least(hits)].Val)]

\* The nodes of s that have the attribute name.
Having(s, name) == {i \in 1..Len(s) : FirstAttr(s[i], name).has}

\* C17: the variant of XGo_Attr that returns (val, err) looks at the first
\* node only: it returns ErrNotFound when the first node has not the
\* attribute, whatever the later nodes have.
C17_FirstNodeOnly ==
    (res.op = "Attr" /\ ns.Err = NoErr) =>
        LET all == Nodes(ns, res.rev)
        IN  (all # << >> /\ ~FirstAttr(all[1], res.name).has) =>
                res.err = ErrNotFound

\* C18: the variant of XGo_Attr that returns (val, err) returns the value of
\* the attribute of the first node, in the order of the NodeSet, that has
\* it, looks at no node after that one, and returns ErrNotFound exactly when
\* no node has the attribute.
C18_FirstFound ==
    (res.op = "Attr" /\ ns.Err = NoErr) =>
        LET all == Nodes(ns, res.rev)
            hits == Having(all, res.name)
        IN  /\ ~res.fault
            /\ hits = {} <=> res.err = ErrNotFound
            /\ hits # {} =>
                  /\ res.err = NoErr
                  /\ res.val = FirstAttr(all[Least(hits)], res.name).v
                  /\ res.after = 0 /\ res.late = 0

\* The error the loader met.
LoadErr == IF input.open # NoErr THEN input.open ELSE input.parse

\* C19: when the loader cannot open or parse its input, the NodeSet it
\* returns has that error in Err and a nil Data, and every operation applied
\* to it reports that error, without a fault and without calling a producer.
C19_LoaderFailure ==
    LoadErr # NoErr =>
        /\ ns.Err = LoadErr
        /\ ns.Data = NilData
        /\ res # NoRes =>
              /\ ~res.fault
              /\ res.calls = 0
              /\ res.op # "Enum" => res.err = LoadErr

\* s is an initial part of t.
IsPrefix(s, t) == Len(s) <= Len(t) /\ SubSeq(t, 1, Len(s)) = s

\* What ranging over p yields, in full.
Ranged(p, rev) == XGo_Enum(p, 0, rev).out

\* One step leaves the NodeSets it works on as they were: an operation that
\* returns a result keeps the NodeSet and its source, an operation that
\* derives a NodeSet keeps its operand as the source, and ranging again after
\* an operation, however far that operation went, yields what ranging yielded
\* before.
C20_Step ==
    \A rev \in BOOLEAN :
        /\ res' # res =>
              /\ Ranged(ns', rev) = Ranged(ns, rev)
              /\ Ranged(prev', rev) = Ranged(prev, rev)
        /\ ns' # ns =>
              /\ Ranged(prev', rev) = Ranged(ns, rev)
              /\ ns' = Derived'
        /\ (res # NoRes /\ res'.again # res.again) =>
              /\ res'.again.ns.out = Ranged(ns, res.rev)
              /\ res'.again.prev.out = Ranged(prev, res.rev)
              /\ ns = Derived
              /\ res.op = "Enum" => IsPrefix(res.out, res'.again.ns.out)

NamesOf(out) == [i \in 1..Len(out) |-> NameOf(ItemNode(out[i]))]

\* The dictionary under tags, and the one under role.
TagsMap == MapGet(MapGet(RoleDoc, n_role).v, n_tags).v
RoleMap == MapGet(RoleDoc, n_role).v

\* C21: over the dictionary document {role: {name: "x", tags: {a: {}, b: {}}}}
\* the enumeration of all descendants of the root yields five nodes, the
\* root, role, tags, and tags' entries a and b, every parent before its
\* children; the scalar entry name is not yielded.
C21_RoleScenario ==
    (/\ pkg = "maps" /\ root = Node(nEmpty, RoleDoc)
     /\ prev = Root(root) /\ op.f = "AnyAll" /\ Enumerated) =>
        LET got == ItemNodes(res.out)
            names == NamesOf(res.out)
        IN  /\ Len(got) = 5
            /\ names \in {<<nEmpty, n_role, n_tags, n_a, n_b>>,
                          <<nEmpty, n_role, n_tags, n_b, n_a>>}
            /\ got[1] = root
            /\ got[2] = Node(n_role, RoleMap)
            /\ got[3] = Node(n_tags, TagsMap)
            /\ \A i \in 4..5 : got[i].Children = MapV(<< >>)
            /\ \A i \in 1..5 : names[i] # n_name

C21_Witness ==
    /\ pkg = "maps" /\ root = Node(nEmpty, RoleDoc)
    /\ prev = Root(root) /\ op.f = "AnyAll" /\ Enumerated
    /\ res.rev
    /\ Len(res.out) = 5

RECURSIVE IsSubseq(_, _)
\* s can be had from t by leaving elements out, the rest kept in order.
IsSubseq(s, t) ==
    IF s = << >> THEN TRUE
    ELSE IF t = << >> THEN FALSE
    ELSE IF Head(s) = Head(t) THEN IsSubseq(Tail(s), Tail(t))
    ELSE IsSubseq(s, Tail(t))

\* What XGo_Elem(name) yields for the one node n.
ElemOf(n, name, rev) == Nodes(XGo_Elem(Root(n), name), rev)

\* The children of n: those of a record in the order its fields are
\* declared, those of a dictionary in the order of the run.
OrderedKids(n, rev) ==
    LET v == reflects_unwrap(n.Children)
    IN  IF Kind(v) = "Struct" THEN RecordKids(v) ELSE KidsOf(n, rev)

RECURSIVE FlatElem(_, _, _), FlatKids(_, _)
FlatElem(s, name, rev) ==
    IF s = << >> THEN << >>
    ELSE ElemOf(Head(s), name, rev) \o FlatElem(Tail(s), name, rev)

FlatKids(s, rev) ==
    IF s = << >> THEN << >>
    ELSE OrderedKids(Head(s), rev) \o FlatKids(Tail(s), rev)

\* C22: in package reflects XGo_Child yields the fields of a record that
\* hold a node in the order the fields are declared, input node after input
\* node; XGo_Select yields input nodes in the order of the input; XGo_Elem
\* yields the children it finds in the order of the input nodes they belong
\* to.
C22_Ordering ==
    (res.op = "Enum" /\ prev.Err = NoErr) =>
        /\ (op.f = "Child" /\ pkg = "reflects") =>
              /\ ItemNodes(res.out) = Consumed(FlatKids(Inputs, res.rev), res.k)
              /\ \A i \in 1..Len(Inputs) :
                    Kind(reflects_unwrap(Inputs[i].Children)) = "Struct" =>
                        /\ KidsOf(Inputs[i], TRUE) = KidsOf(Inputs[i], FALSE)
                        /\ KidsOf(Inputs[i], TRUE) = RecordKids(reflects_unwrap(Inputs[i].Children))
        /\ op.f = "Select" => IsSubseq(ItemNodes(res.out), Inputs)
        /\ op.f = "Elem" =>
              IsPrefix(ItemNodes(res.out), FlatElem(Inputs, op.name, res.rev))

C22_Witness ==
    /\ pkg = "reflects" /\ root = Node(nEmpty, ValueOf(15))
    /\ prev = Root(root) /\ op.f = "Child" /\ Enumerated
    /\ Len(res.out) = 3
    /\ NamesOf(res.out) = <<n_aB, n_a, n_iM>>

\* The registrations of the fetch type of the last call that came before
\* the call, oldest first.
RegsOf(l) == SelectSeq(l.regs, LAMBDA r : r.fetchType = l.fetchType)

\* C23: Do and From with a fetch type that was never registered return a nil
\* result and ErrUnknownPageType and call neither a converter nor a URL
\* function; with a registered type they call the converter last registered
\* for that type, once, Do after one call of that type's URL function and
\* with the URL it returned as the source, From without calling a URL
\* function and with the source it was given.
C23_RegistryDispatch ==
    fetch.last.op # "none" =>
        LET l == fetch.last
            regs == RegsOf(l)
            reg == regs[Len(regs)]
        IN  /\ regs = << >> =>
                  /\ l.ret.val = NilVal
                  /\ l.ret.err = ErrUnknownPageType
                  /\ l.ret.calls = << >>
            /\ regs # << >> =>
                  /\ l.ret.err = NoErr
                  /\ l.ret.val.by = reg.conv
                  /\ l.op = "Do" =>
                        /\ Len(l.ret.calls) = 2
                        /\ l.ret.calls[1] = [fn |-> reg.urlOf, input |-> l.input]
                        /\ l.ret.calls[2] =
                              [fn |-> reg.conv, input |-> l.input,
                               doc |-> [Source |-> URLOf(reg.urlOf, l.input)]]
                  /\ l.op = "From" =>
                        /\ Len(l.ret.calls) = 1
                        /\ l.ret.calls[1] =
                              [fn |-> reg.conv, input |-> l.input,
                               doc |-> [Source |-> l.source]]

C23_Witness ==
    /\ fetch.last.op = "From"
    /\ Len(fetch.last.regs) = 2
    /\ fetch.last.regs[1].fetchType = fetch.last.regs[2].fetchType
    /\ fetch.last.regs[1].conv # fetch.last.regs[2].conv
    /\ fetch.last.fetchType = fetch.last.regs[1].fetchType
    /\ fetch.last.ret.err = NoErr

\* C24: on a NodeSet whose Err is set, Text and Int of packages xml and html
\* return that error, do not call the producer and do not fault.
C24_TextObeysErrorRule ==
    (ns.Err # NoErr /\ res.op \in {"Text", "Int"}) =>
        /\ ~res.fault
        /\ res.err = ns.Err
        /\ res.calls = 0 /\ res.steps = 0

\* C25: when the consumer of the ValueSet of XGo_Attr(name) returns false
\* after a carrier, a NotFound carrier included, no further carrier is
\* delivered and no further node is visited.
C25_AttrSetStops ==
    (res.op = "AttrSet" /\ res.stopped) =>
        /\ res.late = 0
        /\ res.after = 0
        /\ Len(res.out) = res.k

IsWrapper(v) == Kind(v) \in {"Pointer", "Interface"}

\* A nil reference, an invalid value, or a value under two or more wrappers.
LeafShape(v) ==
    \/ Kind(v) = "Invalid"
    \/ IsWrapper(v) /\ (Kind(ValueElem(v)) = "Invalid" \/ IsWrapper(ValueElem(v)))

\* A reference or interface whose immediate target is a record or dictionary.
WrappedOnce(v) == IsWrapper(v) /\ Kind(ValueElem(v)) \in {"Struct", "Map"}

\* What XGo_Attr(name) returns on the one node n.
AttrOf(n, name, rev) ==
    LET r == XGo_Attr(Root(n), name, rev)
    IN  [val |-> r.val, err |-> r.err, fault |-> r.fault]

\* What enumerating XGo_Elem(name) of the one node n gives.
ElemRun(n, name, rev) ==
    LET r == XGo_Enum(XGo_Elem(Root(n), name), 0, rev)
    IN  [out |-> ItemNodes(r.out), fault |-> r.fault]

\* The nodes the last enumeration met: its inputs and what it yielded.
Met == {Inputs[i] : i \in 1..Len(Inputs)}
           \cup {ItemNodes(res.out)[i] : i \in 1..Len(res.out)}

\* C26: package reflects unwraps one pointer or interface, the same in
\* XGo_Elem, XGo_Child, XGo_Any and XGo_Attr.  A pointer or interface to a
\* struct or map has the children and attributes of that struct or map.  A
\* nil pointer, an invalid value and a value under two wrappers are never
\* yielded as children and have no children: XGo_Child and XGo_Elem yield
\* nothing of them, XGo_Any nothing below them, XGo_Attr ErrNotFound.
C26_OneLevelUnwrap ==
    (pkg = "reflects" /\ res.op = "Enum" /\ prev.Err = NoErr) =>
        \A n \in Met :
            LET v == n.Children
                kids == KidsOf(n, res.rev)
            IN  /\ \A k \in 1..Len(kids) : ~LeafShape(kids[k].Children)
                /\ \A name \in Names :
                      \A k \in 1..Len(ElemRun(n, name, res.rev).out) :
                          ~LeafShape(ElemRun(n, name, res.rev).out[k].Children)
                /\ LeafShape(v) =>
                      /\ kids = << >>
                      /\ PreOrder(n, res.rev) = << n >>
                      /\ \A name \in Names :
                            /\ ElemRun(n, name, res.rev) = [out |-> << >>, fault |-> FALSE]
                            /\ AttrOf(n, name, res.rev).err = ErrNotFound
                            /\ ~AttrOf(n, name, res.rev).fault
                            /\ Nodes(XGo_Any(Root(n), name), res.rev) =
                                  IF n.Name = name THEN << n >> ELSE << >>
                /\ WrappedOnce(v) =>
                      LET u == Node(n.Name, ValueElem(v))
                      IN  /\ kids = KidsOf(u, res.rev)
                          /\ \A name \in Names :
                                /\ ElemRun(n, name, res.rev) = ElemRun(u, name, res.rev)
                                /\ AttrOf(n, name, res.rev) = AttrOf(u, name, res.rev)
                                /\ Len(Nodes(XGo_Any(Root(n), name), res.rev)) =
                                      Len(Nodes(XGo_Any(Root(u), name), res.rev))

C26_Witness ==
    /\ pkg = "reflects" /\ root = Node(nEmpty, ValueOf(6))
    /\ prev = Root(root) /\ op.f = "Child" /\ Enumerated
    /\ res.out = << >>

\* What the producer of p hands to a consumer that takes the nodes as they
\* are and breaks after k of them.
RawRun(p, k, rev) == Call(p.Data, User, st0(k, rev))

\* C27: XGo_Enum of a NodeSet whose Err is set yields nothing and does not
\* call the producer.  Of a NodeSet without error (packages reflects, maps
\* and xml, whose XGo_Enum yields NodeSets) it yields, in the order of the
\* producer, one NodeSet for each node: Err nil, holding that node alone
\* under the name it was reached by.  Once the consumer breaks, no further
\* item is delivered and no further node is visited.
C27_EnumLaws ==
    res.op = "Enum" =>
        /\ ns.Err # NoErr =>
              /\ res.out = << >> /\ ~res.fault
              /\ res.calls = 0 /\ res.pulls = 0 /\ res.steps = 0
        /\ (ns.Err = NoErr /\ pkg # "html") =>
              LET raw == RawRun(ns, res.k, res.rev)
              IN  /\ Len(res.out) = Len(raw.out)
                  /\ res.fault = raw.fault
                  /\ res.pulls = raw.pulls
                  /\ \A i \in 1..Len(res.out) :
                        /\ res.out[i].Err = NoErr
                        /\ res.out[i] = Root(raw.out[i])
                        /\ RawRun(res.out[i], 0, res.rev).out = << raw.out[i] >>
                        /\ res.out[i].Data.doc.Name = raw.out[i].Name
        /\ (ns.Err = NoErr /\ res.stopped) =>
              /\ Len(res.out) = res.k
              /\ res.late = 0
              /\ res.after = 0

C27_Witness ==
    /\ res.op = "Enum" /\ pkg = "maps" /\ ns.Err = NoErr
    /\ res.k = 1 /\ res.stopped
    /\ Len(Nodes(ns, res.rev)) >= 2
    /\ res.out[1].Data.doc.Name # nEmpty

\* C28: in package reflects, enumerating XGo_Any(name) to the end over a
\* finite document comes to an end, also when a value reached through
\* pointers points back to one of its ancestors: the descent does not
\* exhaust the stack.
C28_AnyTerminates ==
    (pkg = "reflects" /\ op.f = "Any" /\ res.op = "Enum" /\ res.k = 0) =>
        ~res.overflow

\* C29: in package reflects, for every node n and every child c that
\* XGo_Child yields for n, XGo_Elem of c's name applied to n yields c and
\* nothing else, also when a field of a record is declared with a lower-case
\* first letter or two fields differ only in the case of the first letter.
C29_ChildElemAgree ==
    (pkg = "reflects" /\ op.f = "Child" /\ prev.Err = NoErr /\ Enumerated) =>
        \A i \in 1..Len(Inputs) :
            LET kids == KidsOf(Inputs[i], res.rev)
            IN  \A k \in 1..Len(kids) :
                    ElemRun(Inputs[i], kids[k].Name, res.rev) =
                        [out |-> << kids[k] >>, fault |-> FALSE]

\* C30: XGo_1 never returns a node together with an error: with
\* ErrNotFound, ErrMultiEntities or the NodeSet's own error the node it
\* returns is nil; and once it has received a second node it stops, no
\* further node being handed to it or visited.
C30_SingleNodeOrError ==
    res.op = "XGo_1" =>
        /\ res.err # NoErr => res.node = NilVal
        /\ res.err = NoErr => res.node # NilVal
        /\ res.late = 0
        /\ res.after = 0

====
